---- MODULE Spec2Model ----
(***************************************************************************)
(* FractalImageGenerator (datumaro/plugins/synthetic_data/                 *)
(* image_generator.py): construction, the two-phase run of                 *)
(* generate_dataset, the rejection-sampling loop of _generate_category and *)
(* the weight table of _create_weights.                                    *)
(*                                                                         *)
(* Python sequences are 0-based; TLA+ sequences are 1-based.  An array     *)
(* element with Python index g is at position g + 1 here, and the values   *)
(* stored (category seeds, weight rows, global indices) keep their 0-based *)
(* Python value.  Real numbers are scaled to integers: weights in tenths   *)
(* (1.0 is 10, the interval 0.4 is 4), pixel fractions in percent (the     *)
(* threshold 0.2 is 20).                                                   *)
(***************************************************************************)
EXTENDS Integers, Sequences, FiniteSets, TLC

VARIABLES
    \* ---- arguments and environment of one generator object
    pc,                  \* position of the caller of __init__ and generate_dataset
    arg_count,           \* count argument of __init__
    arg_shape,           \* shape argument of __init__, <<height, width>>
    model_dir,           \* state of the model directory on disk
    network,             \* whether requests.get can reach the model's hosts
    os_cpu_count,        \* os.cpu_count(); NoCpuCount stands for None
    use_multiprocessing, \* line 67
    \* ---- attributes of self
    count, cpu_count, height, width, weights, instances, categories,
    w0,                  \* rows of self._weights on entry to _initialize_params
    downloaded,          \* requests.get calls of _download_colorization_model
    \* ---- locals of generate_dataset and the worker pools
    cat_status,          \* per category task: "pending" | "done"
    params,              \* list returned by pool.map / built by the loop
    repeated_params, weight_per_img, generation_params,
    batch_status,        \* per batch: "pending" | "running" | "done" | "failed"
    batch_pos,           \* per batch: images of the batch already written
    saved,               \* images handed to save_image
    \* ---- one call of _generate_category
    g_pc, g_i, g_pixels, g_params, g_result, g_first, g_attrs,
    \* ---- one call of _create_weights
    cw_pc, cw_num_params, weight_index, multiplier_index, weight_vectors

runVars == <<pc, arg_count, arg_shape, model_dir, network, os_cpu_count,
             use_multiprocessing, count, cpu_count, height, width, weights, instances,
             categories, w0, downloaded, cat_status, params,
             repeated_params, weight_per_img, generation_params, batch_status,
             batch_pos, saved>>
categoryVars == <<g_pc, g_i, g_pixels, g_params, g_result, g_first, g_attrs>>
weightVars == <<cw_pc, cw_num_params, weight_index, multiplier_index, weight_vectors>>
vars == <<runVars, categoryVars, weightVars>>

\* ------------------------------------------------------------------ bounds
\* The count arguments explored: every count up to MaxSmallCount (fewer jobs
\* than weight rows), MidCount (more jobs than weight rows: two instances per
\* category) and LargeCount (two categories, the second with several weight
\* rows).
MaxSmallCount == 6
MidCount == 26
LargeCount == 53
\* Largest os.cpu_count() explored, and the largest explored together with
\* MidCount and LargeCount.
MaxCpu == 3
MaxLargeCpu == 2
\* Largest count and largest weight-row count explored for _initialize_params.
MaxPlanCount == 60
MaxPlanWeights == 30
\* Largest num_params argument explored for _create_weights.
MaxNumParams == 7

\* The value of a result slot no task has filled yet.
None == [none |-> TRUE]

Min(a, b) == IF a < b THEN a ELSE b

\* ------------------------------------------------------------ numpy helpers
\* a // b: the quotient rounded down instead of up.
FloorDiv(a, b) == a \div b
\* np.ceil(a / b) for positive integers a, b.
CeilDiv(a, b) == (a + b - 1) \div b

\* np.ceil(np.sqrt(n)) for a non-negative integer n.
CeilSqrt(n) == CHOOSE r \in 0..n : r * r >= n /\ \A q \in 0..(r - 1) : q * q < n

\* np.repeat(a, n, axis=0): every row n times, contiguously.
Repeat(a, n) == [k \in 1..(Len(a) * n) |-> a[((k - 1) \div n) + 1]]

\* np.tile(a, (n, 1)): the whole array n times.
Tile(a, n) == [k \in 1..(Len(a) * n) |-> a[((k - 1) % Len(a)) + 1]]

\* a[:n]
Truncate(a, n) == SubSeq(a, 1, Min(n, Len(a)))

\* Rows before section j (1-based) of np.array_split over n rows and k sections:
\* the first n % k sections hold n // k + 1 rows, the others n // k.
SectionStart(n, k, j) == (j - 1) * (n \div k) + Min(j - 1, n % k)

\* A split that gives every section n // k rows and the remainder to the last.
RemainderLastSplit(a, k) ==
    [j \in 1..k |-> SubSeq(a, (j - 1) * (Len(a) \div k) + 1,
                           IF j = k THEN Len(a) ELSE j * (Len(a) \div k))]
\* np.array_split(a, k): section j holds the rows from its start to the next.
ArraySplit(a, k) ==
    [j \in 1..k |-> SubSeq(a, SectionStart(Len(a), k, j) + 1,
                           SectionStart(Len(a), k, j + 1))]

\* list(range(a, b))
Range(a, b) == [k \in 1..(IF b > a THEN b - a ELSE 0) |-> a + k - 1]

RECURSIVE Concat(_)
Concat(ss) == IF ss = <<>> THEN <<>> ELSE Head(ss) \o Concat(Tail(ss))

\* ------------------------------------------------------- _initialize_params
InitializeParams(cnt, w) ==
    LET w2 == IF cnt < Len(w) THEN SubSeq(w, 1, cnt) ELSE w
        instances_categories == CeilDiv(cnt, Len(w2))
        inst == CeilSqrt(instances_categories)
        cats == CeilDiv(instances_categories, inst)
    IN  [weights |-> w2, instances |-> inst, categories |-> cats]

\* The row identifiers 0 .. n-1 of a weight table with n rows.
WeightRows(n) == [k \in 1..n |-> k - 1]

\* Rows of the table _create_weights(P) returns: the base row and one row per
\* weight index and multiplier.
INTERVAL_MULTIPLIERS == <<-2, -1, 1, 2>>
WeightsShape0(P) == 1 + P * Len(INTERVAL_MULTIPLIERS)


\* ------------------------------------------------------------------ __init__
\* IFSFunction.NUM_PARAMS: line 164 unpacks NUM_PARAMS values into the six
\* names a, b, c, d, e, f.
NUM_PARAMS == 6

\* The three model files, lines 30-32.
MODEL_FILES == 3

\* os.cpu_count() returning None.
NoCpuCount == 0

\* Shapes handed to __init__: a valid one, one with height 0 and a negative
\* width, and two that are not pairs.
ShapeSet == {<<1, 1>>, <<0, -1>>, <<1, 1, 1>>, <<1>>}

\* "cached": the three model files exist; "missing_writable": none of them
\* exists and the directory is writable; "missing_unwritable": none of them
\* exists and the directory is not writable.
ModelDirSet == {"cached", "missing_writable", "missing_unwritable"}

\* requests.get succeeds ("up") or raises ConnectionError ("down").
NetworkSet == {"up", "down"}

\* The exceptions that leave __init__.
ConstructionErrors == {"AssertionError", "TypeError", "ValueError", "ConnectionError"}

CountSet == (1..MaxSmallCount) \cup {MidCount, LargeCount}

LocalsBlank ==
    /\ cat_status = <<>> /\ params = <<>>
    /\ repeated_params = <<>> /\ weight_per_img = <<>> /\ generation_params = <<>>
    /\ batch_status = <<>> /\ batch_pos = <<>> /\ saved = {}

RunBlank ==
    /\ count = 0 /\ cpu_count = 0 /\ height = 0 /\ width = 0
    /\ weights = <<>> /\ instances = 0 /\ categories = 0 /\ w0 = 0
    /\ downloaded = 0
    /\ LocalsBlank

runLocals == <<cat_status, params, repeated_params, weight_per_img,
               generation_params, batch_status, batch_pos, saved>>
runArgs == <<arg_count, arg_shape, network, os_cpu_count, use_multiprocessing>>
selfAttrs == <<count, cpu_count, height, width, weights, instances, categories,
               w0>>
diskState == <<model_dir, downloaded>>

\* Line 38: the count assertion.
CountAccepted(c) == 0 < c

\* Lines 208-214: _download_colorization_model raises ValueError.
ModelUnavailable(dir) == dir = "missing_unwritable"

\* __init__, lines 35-56, statement by statement: the attributes of self, the
\* model directory and the requests made when __init__ is left, and how it is
\* left (pc: "constructed" or the exception raised).
ConstructOutcome(cnt, shape, cpu, dir, net) ==
    LET blank == [pc |-> "new", count |-> 0, cpu_count |-> 0, height |-> 0,
                  width |-> 0, weights |-> <<>>, instances |-> 0, categories |-> 0,
                  w0 |-> 0, downloaded |-> 0, model_dir |-> dir]
        \* line 39
        s39 == [blank EXCEPT !.count = cnt]
        \* line 44
        s44 == [s39 EXCEPT !.cpu_count = Min(cpu, cnt)]
        \* line 47
        s47 == [s44 EXCEPT !.height = shape[1], !.width = shape[2]]
        \* line 49
        tbl == WeightRows(WeightsShape0(NUM_PARAMS))
        s49 == [s47 EXCEPT !.weights = tbl, !.w0 = Len(tbl)]
        \* line 54, lines 216-247: every missing file is fetched and written
        s54 == IF dir = "cached" THEN s49
               ELSE [s49 EXCEPT !.downloaded = MODEL_FILES, !.model_dir = "cached"]
        \* line 56
        plan == InitializeParams(cnt, tbl)
    IN  IF ~CountAccepted(cnt) THEN [blank EXCEPT !.pc = "AssertionError"]
        ELSE IF cpu = NoCpuCount THEN [s39 EXCEPT !.pc = "TypeError"]
        ELSE IF Len(shape) # 2 THEN [s44 EXCEPT !.pc = "AssertionError"]
        ELSE IF ModelUnavailable(dir) THEN [s49 EXCEPT !.pc = "ValueError"]
        ELSE IF dir # "cached" /\ net = "down"
             THEN [s49 EXCEPT !.pc = "ConnectionError", !.downloaded = 1]
        ELSE [s54 EXCEPT !.pc = "constructed", !.weights = plan.weights,
                         !.instances = plan.instances,
                         !.categories = plan.categories]

\* self, the disk and the caller's position are as `r` says.
StateIs(r) ==
    /\ pc = r.pc
    /\ count = r.count /\ cpu_count = r.cpu_count
    /\ height = r.height /\ width = r.width
    /\ weights = r.weights /\ instances = r.instances
    /\ categories = r.categories /\ w0 = r.w0
    /\ downloaded = r.downloaded /\ model_dir = r.model_dir

\* __init__, lines 35-56.
Construct ==
    /\ pc = "new"
    /\ LET r == ConstructOutcome(arg_count, arg_shape, os_cpu_count, model_dir,
                                 network)
       IN  /\ pc' = r.pc
           /\ count' = r.count /\ cpu_count' = r.cpu_count
           /\ height' = r.height /\ width' = r.width
           /\ weights' = r.weights /\ instances' = r.instances
           /\ categories' = r.categories /\ w0' = r.w0
           /\ downloaded' = r.downloaded /\ model_dir' = r.model_dir
    /\ UNCHANGED <<runArgs, runLocals, categoryVars, weightVars>>

\* A caller about to construct a generator, for every argument and environment
\* explored.
InitConstruct ==
    /\ pc = "new"
    /\ arg_count \in (-1..0) \cup CountSet
    /\ arg_shape \in ShapeSet
    /\ model_dir \in ModelDirSet
    /\ network \in NetworkSet
    /\ os_cpu_count \in {NoCpuCount} \cup (1..MaxCpu)
    /\ use_multiprocessing = TRUE
    /\ RunBlank
    /\ g_pc = "idle" /\ g_i = 0 /\ g_pixels = 0 /\ g_params = None
    /\ g_result = None /\ g_first = 0 /\ g_attrs = <<>>
    /\ cw_pc = "idle" /\ cw_num_params = 0 /\ weight_index = 0
    /\ multiplier_index = 0 /\ weight_vectors = <<>>

NextConstruct == Construct

SpecConstruct == InitConstruct /\ [][NextConstruct]_vars

\* ---------------------------------------------------------- generate_dataset
\* The value _generate_category(Random(seed)) returns: the generator is seeded
\* from the category number alone, so the result is a function of the seed.
GenerateCategory(seed) == [category_seed |-> seed]

\* A result list filled in the order the tasks return.
StoreInReturnOrder(results, i, r) ==
    LET p == CHOOSE q \in 1..Len(results) :
                 results[q] = None /\ \A q2 \in 1..(q - 1) : results[q2] # None
    IN  [results EXCEPT ![p] = r]
\* pool.map stores the value of task i at position i of its result list.
PoolMapStore(results, i, r) == [results EXCEPT ![i + 1] = r]

\* generate_dataset is entered: lines 58-71 (the tasks are handed to the pool)
\* or lines 74-75.
StartSampling ==
    /\ pc = "constructed"
    /\ pc' = "sampling"
    /\ cat_status' = [k \in 1..categories |-> "pending"]
    /\ params' = IF use_multiprocessing THEN [k \in 1..categories |-> None] ELSE <<>>
    /\ UNCHANGED <<runArgs, selfAttrs, diskState, repeated_params, weight_per_img,
                   generation_params, batch_status, batch_pos, saved,
                   categoryVars, weightVars>>

\* Lines 69-72: one task of pool.map returns; tasks return in any order.
PoolCategoryReturns(i) ==
    /\ pc = "sampling"
    /\ use_multiprocessing
    /\ i \in 0..(categories - 1)
    /\ cat_status[i + 1] = "pending"
    /\ cat_status' = [cat_status EXCEPT ![i + 1] = "done"]
    /\ params' = PoolMapStore(params, i, GenerateCategory(i))
    /\ UNCHANGED <<pc, runArgs, selfAttrs, diskState, repeated_params, weight_per_img,
                   generation_params, batch_status, batch_pos, saved,
                   categoryVars, weightVars>>

\* Lines 75-77: one iteration of the sequential loop.
LoopCategoryReturns(i) ==
    /\ pc = "sampling"
    /\ ~use_multiprocessing
    /\ i = Len(params)
    /\ i \in 0..(categories - 1)
    /\ cat_status[i + 1] = "pending"
    /\ cat_status' = [cat_status EXCEPT ![i + 1] = "done"]
    /\ params' = Append(params, GenerateCategory(i))
    /\ UNCHANGED <<pc, runArgs, selfAttrs, diskState, repeated_params, weight_per_img,
                   generation_params, batch_status, batch_pos, saved,
                   categoryVars, weightVars>>

\* At least one category task has returned.
SomeCategoryReturned == \E k \in 1..Len(cat_status) : cat_status[k] = "done"
\* pool.map has returned / the loop of line 75 has ended.
AllCategoriesReturned == \A k \in 1..Len(cat_status) : cat_status[k] = "done"

\* Indices that restart at 0 in every batch.
BatchLocalIndices(offset, n) == Range(0, n)
\* Line 94 with the offset of line 95: the global indices of one batch.
BatchIndices(offset, n) == Range(offset, offset + n)

\* Lines 91-96: one tuple (param, w, indices) per section, offset accumulated.
RECURSIVE BuildGenerationParams(_, _, _, _)
BuildGenerationParams(pp, wp, k, offset) ==
    IF k > Len(pp) \/ k > Len(wp) THEN <<>>
    ELSE <<[param |-> pp[k], w |-> wp[k],
            indices |-> BatchIndices(offset, Len(pp[k]))]>>
         \o BuildGenerationParams(pp, wp, k + 1, offset + Len(pp[k]))

\* Lines 79-96 and the hand-over of the batches to the second pool (98-100).
Partition ==
    /\ pc = "sampling"
    /\ AllCategoriesReturned
    /\ LET instances_weights == Repeat(weights, instances)
           tiled == Tile(instances_weights, categories)
           repeated == Repeat(params, Len(weights) * instances)
           rp == Truncate(repeated, count)
           wpi == Truncate(tiled, count)
           splits == Min(cpu_count, count)
           gp == BuildGenerationParams(ArraySplit(rp, splits),
                                       ArraySplit(wpi, splits), 1, 0)
       IN  /\ repeated_params' = rp
           /\ weight_per_img' = wpi
           /\ IF Len(wpi) = Len(rp) /\ Len(rp) = count
              THEN /\ pc' = "synthesis"
                   /\ generation_params' = gp
                   /\ batch_status' = [b \in 1..Len(gp) |-> "pending"]
                   /\ batch_pos' = [b \in 1..Len(gp) |-> 0]
              ELSE /\ pc' = "assertion_error"
                   /\ UNCHANGED <<generation_params, batch_status, batch_pos>>
    /\ UNCHANGED <<runArgs, selfAttrs, diskState, cat_status, params, saved,
                   categoryVars, weightVars>>


\* ------------------------------------------------------ _generate_image_batch
\* Lines 120-134: the image written for one tuple of the zip; both generators
\* are Random(i), the file is named after i.
ImageFor(batch, k) ==
    [name |-> batch.indices[k], seed |-> batch.indices[k],
     param |-> batch.param[k], weight |-> batch.w[k]]

\* Lines 98-103: which batch may enter _generate_image_batch.  The pool has one
\* process per batch and takes the batches in any order; the loop of line 102
\* takes them in order and is left by the first exception.
BatchMayStart(b) ==
    /\ b \in 1..Len(batch_status)
    /\ batch_status[b] = "pending"
    /\ IF use_multiprocessing
       THEN Cardinality({b2 \in 1..Len(batch_status) :
                            batch_status[b2] = "running"}) < cpu_count
       ELSE \A b2 \in 1..(b - 1) : batch_status[b2] = "done"

\* Lines 108-118: a worker enters _generate_image_batch.
BatchStart(b) ==
    /\ pc = "synthesis"
    /\ BatchMayStart(b)
    /\ batch_status' = [batch_status EXCEPT ![b] = "running"]
    /\ UNCHANGED <<pc, runArgs, selfAttrs, diskState, cat_status, params, repeated_params,
                   weight_per_img, generation_params, batch_pos, saved,
                   categoryVars, weightVars>>

\* Lines 120-134: one iteration of the loop; the batch ends with its last image.
BatchImage(b) ==
    /\ pc = "synthesis"
    /\ b \in 1..Len(batch_status)
    /\ batch_status[b] = "running"
    /\ batch_pos[b] < Len(generation_params[b].indices)
    /\ saved' = saved \cup {ImageFor(generation_params[b], batch_pos[b] + 1)}
    /\ batch_pos' = [batch_pos EXCEPT ![b] = @ + 1]
    /\ batch_status' = IF batch_pos[b] + 1 = Len(generation_params[b].indices)
                       THEN [batch_status EXCEPT ![b] = "done"]
                       ELSE batch_status
    /\ UNCHANGED <<pc, runArgs, selfAttrs, diskState, cat_status, params, repeated_params,
                   weight_per_img, generation_params, categoryVars, weightVars>>

\* Lines 108-134: an exception leaves _generate_image_batch (np.load,
\* readNetFromCaffe, colorize, save_image, ...).
BatchFails(b) ==
    /\ pc = "synthesis"
    /\ b \in 1..Len(batch_status)
    /\ batch_status[b] = "running"
    /\ batch_status' = [batch_status EXCEPT ![b] = "failed"]
    /\ UNCHANGED <<pc, runArgs, selfAttrs, diskState, cat_status, params, repeated_params,
                   weight_per_img, generation_params, batch_pos, saved,
                   categoryVars, weightVars>>

BatchFailed == \E b \in 1..Len(batch_status) : batch_status[b] = "failed"

\* Lines 98-103: when generate_dataset is left.  It returns once every batch has
\* ended without an exception.  The loop of line 102 is left by the first
\* exception; starmap re-raises the first exception of a task, at once or once
\* every task has ended, depending on the interpreter's pool.
SynthesisEnded ==
    \/ BatchFailed
    \/ \A b \in 1..Len(batch_status) : batch_status[b] = "done"

\* A caller that ignores the batches' exceptions.
SwallowFailure(statuses) == "done"
\* How generate_dataset is left: the first exception of a batch is raised.
RunOutcome(statuses) ==
    IF \E b \in 1..Len(statuses) : statuses[b] = "failed" THEN "failed" ELSE "done"

Finish ==
    /\ pc = "synthesis"
    /\ SynthesisEnded
    /\ pc' = RunOutcome(batch_status)
    /\ UNCHANGED <<runArgs, selfAttrs, diskState, runLocals, categoryVars, weightVars>>

\* ------------------------------------------------------- the run of a generator
CategoryIdle ==
    /\ g_pc = "idle" /\ g_i = 0 /\ g_pixels = 0 /\ g_params = None
    /\ g_result = None /\ g_first = 0 /\ g_attrs = <<>>

WeightsIdle ==
    /\ cw_pc = "idle" /\ cw_num_params = 0 /\ weight_index = 0
    /\ multiplier_index = 0 /\ weight_vectors = <<>>

\* The counts from MidCount on are explored with at most MaxLargeCpu workers.
CpuSet(cnt) == 1..(IF cnt >= MidCount THEN MaxLargeCpu ELSE MaxCpu)

\* A generator that __init__ has constructed, with the model files in place.
Init ==
    /\ arg_count \in CountSet
    /\ arg_shape = <<1, 1>>
    /\ network = "up"
    /\ os_cpu_count \in CpuSet(arg_count)
    /\ use_multiprocessing \in BOOLEAN
    /\ StateIs(ConstructOutcome(arg_count, arg_shape, os_cpu_count, "cached",
                                network))
    /\ LocalsBlank
    /\ CategoryIdle
    /\ WeightsIdle

Next ==
    \/ StartSampling
    \/ \E i \in 0..(categories - 1) : PoolCategoryReturns(i)
    \/ \E i \in 0..(categories - 1) : LoopCategoryReturns(i)
    \/ Partition
    \/ \E b \in 1..Len(batch_status) : BatchStart(b)
    \/ \E b \in 1..Len(batch_status) : BatchImage(b)
    \/ \E b \in 1..Len(batch_status) : BatchFails(b)
    \/ Finish

Spec == Init /\ [][Next]_vars


\* ------------------------------------------- _initialize_params on its own
\* The generator inside __init__ at line 56, for any count and any number of
\* weight rows.
InitPlanner ==
    /\ pc = "init_params"
    /\ count \in 1..MaxPlanCount
    /\ w0 \in 1..MaxPlanWeights
    /\ weights = WeightRows(w0)
    /\ arg_count = count /\ arg_shape = <<1, 1>> /\ model_dir = "cached"
    /\ network = "up" /\ os_cpu_count = 1 /\ use_multiprocessing = TRUE
    /\ cpu_count = 1 /\ height = 1 /\ width = 1
    /\ instances = 0 /\ categories = 0 /\ downloaded = 0
    /\ cat_status = <<>> /\ params = <<>>
    /\ repeated_params = <<>> /\ weight_per_img = <<>> /\ generation_params = <<>>
    /\ batch_status = <<>> /\ batch_pos = <<>> /\ saved = {}
    /\ CategoryIdle
    /\ WeightsIdle

\* Lines 175-181.
InitializeParamsCall ==
    /\ pc = "init_params"
    /\ LET plan == InitializeParams(count, weights)
       IN  /\ weights' = plan.weights
           /\ instances' = plan.instances
           /\ categories' = plan.categories
    /\ pc' = "planned"
    /\ UNCHANGED <<runArgs, count, cpu_count, height, width, w0, diskState,
                   runLocals, categoryVars, weightVars>>

NextPlanner == InitializeParamsCall

SpecPlanner == InitPlanner /\ [][NextPlanner]_vars

\* ------------------------------------------------------------ _create_weights
\* Weights in tenths: np.ones is 10, WEIGHT_INTERVAL 0.4 is 4.
BASE_WEIGHT == 10
WEIGHT_INTERVAL == 4

\* Line 186.
BASE_WEIGHTS(P) == [d \in 1..P |-> BASE_WEIGHT]

\* The entry overwritten by the offset instead of offset by it.
AssignedWeights(base, k, multiplier) ==
    [base EXCEPT ![k + 1] = multiplier * WEIGHT_INTERVAL]
\* Lines 193-194: a copy of the base row with one entry offset.
ModifiedWeights(base, k, multiplier) ==
    [base EXCEPT ![k + 1] = @ + multiplier * WEIGHT_INTERVAL]

RunIdle ==
    /\ pc = "idle"
    /\ arg_count = 0 /\ arg_shape = <<1, 1>> /\ model_dir = "cached"
    /\ network = "up" /\ os_cpu_count = 1 /\ use_multiprocessing = TRUE
    /\ RunBlank

\* _create_weights(num_params) after line 189.
InitWeights ==
    /\ cw_pc = "loop"
    /\ cw_num_params \in 0..MaxNumParams
    /\ weight_index = 0
    /\ multiplier_index = 1
    /\ weight_vectors = <<BASE_WEIGHTS(cw_num_params)>>
    /\ RunIdle
    /\ CategoryIdle

\* Lines 191-195: one iteration of the inner loop.
AppendModifiedWeights ==
    /\ cw_pc = "loop"
    /\ weight_index < cw_num_params
    /\ weight_vectors' =
          Append(weight_vectors,
                 ModifiedWeights(BASE_WEIGHTS(cw_num_params), weight_index,
                                 INTERVAL_MULTIPLIERS[multiplier_index]))
    /\ IF multiplier_index = Len(INTERVAL_MULTIPLIERS)
       THEN weight_index' = weight_index + 1 /\ multiplier_index' = 1
       ELSE weight_index' = weight_index /\ multiplier_index' = multiplier_index + 1
    /\ UNCHANGED <<cw_pc, cw_num_params, runVars, categoryVars>>

\* Lines 196-197.
ReturnWeights ==
    /\ cw_pc = "loop"
    /\ weight_index = cw_num_params
    /\ cw_pc' = "returned"
    /\ UNCHANGED <<cw_num_params, weight_index, multiplier_index, weight_vectors,
                   runVars, categoryVars>>

NextWeights == AppendModifiedWeights \/ ReturnWeights

SpecWeights == InitWeights /\ [][NextWeights]_vars

\* ---------------------------------------------------------- _generate_category
\* Line 50, in percent; lines 51 and 52.
threshold == 20
iterations == 200000
num_of_points == 100000

\* Nonzero-pixel fractions (percent) a rendered candidate may have: below the
\* threshold, just below it, exactly at it, above it.
DensityOutcomes == {0, 19, 20, 21}

\* The attributes of self that _generate_category uses.
SamplingAttrs ==
    [threshold |-> threshold, iterations |-> iterations,
     num_of_points |-> num_of_points]

\* The parameter array built by the n-th pass of the loop (lines 159-168).
Candidate(n) == [attempt |-> n]

\* A loop that also resamples a candidate exactly at the threshold.
InclusiveLoopCondition(pixels, i, self) ==
    pixels <= self.threshold /\ i < self.iterations
\* Line 158.
LoopCondition(pixels, i, self) ==
    pixels < self.threshold /\ i < self.iterations

\* Lines 156-157: _generate_category is entered.
InitCategory ==
    /\ g_pc = "loop"
    /\ g_i = 0
    /\ g_pixels = -100
    /\ g_params = None
    /\ g_result = None
    /\ g_first = 0
    /\ g_attrs = SamplingAttrs
    /\ RunIdle
    /\ WeightsIdle

\* Lines 158-172: one pass of the loop; g_first records the first attempt whose
\* fraction reached the threshold.
SampleCandidate ==
    /\ g_pc = "loop"
    /\ LoopCondition(g_pixels, g_i, g_attrs)
    /\ \E d \in DensityOutcomes :
          /\ g_pixels' = d
          /\ g_first' = IF g_first = 0 /\ d >= g_attrs.threshold
                        THEN g_i + 1 ELSE g_first
    /\ g_params' = Candidate(g_i + 1)
    /\ g_i' = g_i + 1
    /\ UNCHANGED <<g_pc, g_result, g_attrs, runVars, weightVars>>

\* A return that loses the candidate.
DiscardParams(p) == None
\* Line 173.
ReturnedParams(p) == p

ReturnCategory ==
    /\ g_pc = "loop"
    /\ ~LoopCondition(g_pixels, g_i, g_attrs)
    /\ g_pc' = "returned"
    /\ g_result' = ReturnedParams(g_params)
    /\ UNCHANGED <<g_i, g_pixels, g_params, g_first, g_attrs, runVars, weightVars>>

NextCategory == SampleCandidate \/ ReturnCategory

SpecCategory == InitCategory /\ [][NextCategory]_vars

\* ================================================================== claims
\* The job list has been built and split (lines 79-96 have run).
Partitioned == pc \in {"synthesis", "done", "failed"}

BatchField(f) == [b \in 1..Len(generation_params) |-> generation_params[b][f]]

\* C1: for every count N > 0 and every worker count, generate_dataset builds
\* exactly N jobs (the assertion of line 85 never fails), and the index lists of
\* the batches, taken together in batch order, are 0, 1, ..., N-1, each index
\* once; with N = 1 there is one category, one instance per category and the
\* single job with index 0.
C1_ExactlyNJobsIndexed ==
    /\ pc # "assertion_error"
    /\ Partitioned =>
        /\ Len(repeated_params) = count
        /\ Len(weight_per_img) = count
        /\ Concat(BatchField("indices")) = Range(0, count)
        /\ LET all == Concat(BatchField("indices"))
                given == {all[p] : p \in 1..Len(all)}
           IN  /\ Len(all) = count
               /\ Cardinality(given) = Len(all)
               /\ given = 0..(count - 1)
        /\ count = 1 =>
              /\ categories = 1 /\ instances = 1
              /\ Len(generation_params) = 1
              /\ generation_params[1].indices = <<0>>

C1_Witness ==
    /\ pc = "synthesis"
    /\ count > Len(weights) * instances
    /\ Len(generation_params) >= 2
    /\ categories >= 2

\* The parameters the job with global index g must get: category
\* floor(g / (I*W)), weight row floor((g mod (I*W)) / I).
ExpectedJob(g) ==
    LET block == instances * Len(weights)
    IN  [param |-> GenerateCategory(g \div block),
         weight |-> weights[((g % block) \div instances) + 1]]

\* C2: the job with global index g always gets the sampled parameters of
\* category floor(g / (I*W)), weight vector floor((g mod (I*W)) / I) and
\* generators seeded from g alone, for every worker count, every batch split
\* and every order in which the category tasks and the batches run or return.
C2_JobIsFunctionOfIndex ==
    /\ Partitioned =>
          \A b \in 1..Len(generation_params) :
             \A k \in 1..Len(generation_params[b].indices) :
                LET g == generation_params[b].indices[k]
                IN  /\ generation_params[b].param[k] = ExpectedJob(g).param
                    /\ generation_params[b].w[k] = ExpectedJob(g).weight
    /\ \A s \in saved :
          /\ s.seed = s.name
          /\ s.param = ExpectedJob(s.name).param
          /\ s.weight = ExpectedJob(s.name).weight

\* An image of a later category and a later batch is written while the first
\* batch has not started.
C2_Witness ==
    /\ use_multiprocessing
    /\ categories >= 2
    /\ Len(batch_status) >= 2
    /\ batch_status[1] = "pending"
    /\ \E s \in saved : s.param = GenerateCategory(1) /\ s.name > 0 /\ s.weight > 0

\* C3: the truncated job list is split into exactly min(worker_count, N)
\* contiguous batches whose sizes differ by at most 1, none empty, and the
\* batches' params, weights and indices concatenated in batch order are the
\* truncated job list and the indices 0..N-1, without overlap or gap.
C3_BalancedContiguousSplit ==
    Partitioned =>
        /\ Len(generation_params) = Min(os_cpu_count, count)
        /\ \A b \in 1..Len(generation_params) :
              /\ Len(generation_params[b].indices) >= 1
              /\ Len(generation_params[b].param) = Len(generation_params[b].indices)
              /\ Len(generation_params[b].w) = Len(generation_params[b].indices)
              /\ \A k \in 2..Len(generation_params[b].indices) :
                    generation_params[b].indices[k] =
                        generation_params[b].indices[k - 1] + 1
        /\ \A b1, b2 \in 1..Len(generation_params) :
              Len(generation_params[b1].indices)
                  - Len(generation_params[b2].indices) \in {-1, 0, 1}
        /\ Concat(BatchField("param")) = repeated_params
        /\ Concat(BatchField("w")) = weight_per_img
        /\ Concat(BatchField("indices")) = Range(0, Len(repeated_params))

\* Three batches of unequal size.
C3_Witness ==
    /\ Partitioned
    /\ Len(generation_params) = 3
    /\ Len(generation_params[1].indices) = Len(generation_params[3].indices) + 1
    /\ count % 3 = 2


\* A batch worker enters _generate_image_batch in this step.
BatchNewlyStarted ==
    \E b \in 1..Len(batch_status) :
        /\ batch_status[b] = "pending"
        /\ Len(batch_status') = Len(batch_status)
        /\ batch_status'[b] # "pending"

\* C5 as stated: once a batch worker has failed, the run never reaches DONE
\* and no further batch is started.
C5_Original ==
    [][BatchFailed => (pc' # "done" /\ ~BatchNewlyStarted)]_vars

\* C5: once a batch worker has failed, generate_dataset never returns normally
\* and is left only by raising (the run cannot stop anywhere else); on the
\* sequential path no further batch is started after the failure (on the pool
\* path a batch handed to the pool may still start).
C5_FailureEndsRun ==
    /\ [](BatchFailed => /\ pc \in {"synthesis", "failed"}
                         /\ (pc = "failed" \/ ENABLED Next))
    /\ [][BatchFailed => pc' # "done"]_vars
    /\ [][(BatchFailed /\ ~use_multiprocessing) => ~BatchNewlyStarted]_vars

\* The run has failed in the pool after a batch failed at its first image while
\* another batch wrote all of its images.
C5_Witness ==
    /\ pc = "failed"
    /\ use_multiprocessing
    /\ \E b1, b2 \in 1..Len(batch_status) :
          /\ batch_status[b1] = "failed" /\ batch_pos[b1] = 0
          /\ batch_status[b2] = "done"
          /\ batch_pos[b2] = Len(generation_params[b2].indices)

\* The phases of a run, in the order the caller's position may change.
PhaseStep ==
    pc' # pc => <<pc, pc'>> \in {<<"constructed", "sampling">>,
                                 <<"sampling", "synthesis">>,
                                 <<"synthesis", "done">>, <<"synthesis", "failed">>}

PartitionOrSynthesisBegun ==
    \/ repeated_params # <<>> \/ weight_per_img # <<>> \/ generation_params # <<>>
    \/ \E b \in 1..Len(batch_status) : batch_status[b] # "pending"
    \/ saved # {}

\* C6: a run goes INIT -> CATEGORY_SAMPLING -> PARTITION -> BATCH_SYNTHESIS ->
\* DONE in that order; no job list is built and no batch starts before every
\* category's sampling has returned; DONE is reached only after every batch has
\* written all its images, i.e. every index 0..N-1 was handed to save_image.
C6_PhasesComplete ==
    /\ [](PartitionOrSynthesisBegun =>
             /\ Len(cat_status) = categories
             /\ Len(params) = categories
             /\ \A k \in 1..categories :
                   cat_status[k] = "done" /\ params[k] # None)
    /\ [](pc = "done" =>
             /\ {s.name : s \in saved} = 0..(count - 1)
             /\ \A b \in 1..Len(batch_status) :
                   /\ batch_status[b] = "done"
                   /\ batch_pos[b] = Len(generation_params[b].indices))
    /\ [][PhaseStep]_vars

C6_Witness ==
    /\ pc = "done"
    /\ categories >= 2
    /\ Len(batch_status) >= 2
    /\ Cardinality(saved) = count

InvalidConfiguration ==
    \/ arg_count <= 0
    \/ Len(arg_shape) = 2 /\ (arg_shape[1] <= 0 \/ arg_shape[2] <= 0)

\* C9: an invalid configuration (count <= 0, or a non-positive height or
\* width) is rejected by __init__ with no work performed: no model download,
\* no category sampling, no image synthesis.
C9_InvalidConfigurationRejected ==
    InvalidConfiguration =>
        /\ pc \in {"new"} \cup ConstructionErrors
        /\ downloaded = 0
        /\ cat_status = <<>>
        /\ saved = {}


\* C4: for every N > 0 and every initial weight-row count W0 >= 1,
\* _initialize_params keeps the first W = min(W0, N) weight rows and computes
\* categories >= 1 and instances >= 1 with categories * instances * W >= N, so
\* the expanded arrays of lines 79-82 truncated to N have exactly N rows.
C4_PlannerOverProvisions ==
    pc = "planned" =>
        /\ weights = SubSeq(WeightRows(w0), 1, Min(w0, count))
        /\ categories >= 1
        /\ instances >= 1
        /\ categories * instances * Len(weights) >= count
        /\ Len(Truncate(Tile(Repeat(weights, instances), categories), count)) = count

\* More capacity than jobs, several categories, several instances, all rows kept.
C4_Witness ==
    /\ pc = "planned"
    /\ Len(weights) = w0 /\ w0 >= 2
    /\ categories >= 2 /\ instances >= 2
    /\ categories * instances * Len(weights) > count

\* No candidate reached the threshold before _generate_category returned.
Exhausted == g_pc = "returned" /\ g_first = 0

\* C7: the loop of _generate_category always ends: every step of the loop is a
\* new attempt or the return, at most `iterations` (200,000) attempts are made,
\* it returns the first candidate whose fraction reaches the threshold, and
\* when none does it returns the last candidate after exactly the cap.
C7_SamplingTerminates ==
    /\ [](g_i <= iterations)
    /\ [](g_pc = "loop" => ENABLED NextCategory)
    /\ []((g_pc = "loop" /\ g_i > 0 /\ g_i < iterations) =>
             (g_pixels < threshold <=> g_first = 0))
    /\ [](g_pc = "returned" =>
             /\ g_i >= 1
             /\ g_result = Candidate(g_i)
             /\ g_first # 0 => (g_i = g_first /\ g_pixels >= threshold)
             /\ g_first = 0 => (g_i = iterations /\ g_pixels < threshold))
    /\ [][g_pc = "loop" => (g_i' = g_i + 1 \/ g_pc' = "returned")]_vars

\* The third candidate is the first to reach the threshold and is returned.
C7_Witness ==
    /\ g_pc = "returned"
    /\ g_first = 3
    /\ g_pixels = threshold
    /\ g_result = Candidate(3)

\* C8 as stated: when the cap is exhausted a parameter array is returned and a
\* degeneracy counter (an attribute of the generator) has been incremented.
C8_Original ==
    Exhausted =>
        /\ g_result = Candidate(g_i)
        /\ \E a \in DOMAIN g_attrs : g_attrs[a] > SamplingAttrs[a]

\* C8: when the cap is exhausted the last candidate is returned without
\* raising and nothing else is recorded: every attribute of the generator is
\* what it was on entry.
C8_SilentDegeneracy ==
    Exhausted =>
        /\ g_i = iterations
        /\ g_pixels < threshold
        /\ g_result = Candidate(iterations)
        /\ g_attrs = SamplingAttrs

C8_Witness == Exhausted /\ g_pixels = 19 /\ g_result = Candidate(g_i)

\* The offsets -2d, -d, +d, +2d of the claim, in tenths.
Offsets == <<-2 * WEIGHT_INTERVAL, -WEIGHT_INTERVAL, WEIGHT_INTERVAL, 2 * WEIGHT_INTERVAL>>

\* C10: for every P, _create_weights returns exactly 1 + 4P vectors in a fixed
\* order: vector 0 is all ones, and vector 1 + 4k + j equals the base vector
\* except in dimension k, which is offset by the j-th of -2d, -d, +d, +2d.
C10_WeightTable ==
    /\ Len(weight_vectors) = IF cw_pc = "idle" THEN 0
                             ELSE 1 + 4 * weight_index + (multiplier_index - 1)
    /\ cw_pc = "returned" =>
          /\ Len(weight_vectors) = 1 + 4 * cw_num_params
          /\ weight_vectors[1] = [d \in 1..cw_num_params |-> BASE_WEIGHT]
          /\ \A k \in 0..(cw_num_params - 1) : \A j \in 0..3 :
                weight_vectors[(1 + 4 * k + j) + 1] =
                    [d \in 1..cw_num_params |->
                        IF d = k + 1 THEN BASE_WEIGHT + Offsets[j + 1]
                        ELSE BASE_WEIGHT]

C10_Witness ==
    /\ cw_pc = "returned"
    /\ cw_num_params = 6
    /\ Len(weight_vectors) = 25
    /\ weight_vectors[22][6] = 2

====
